---- MODULE Spec2Model ----
(***************************************************************************)
(* conv3d: conversion of an indexed STL mesh to a glTF document            *)
(* (convert_stl_to_gltf, bounding_coords) and the two export paths the     *)
(* crate's tests drive (to_glb + to_writer, merge_gltf_buffers +           *)
(* set_buffer_uri + write_to_gltf + write_all_buffers).                    *)
(*                                                                         *)
(* f32 values are modelled exactly as reduced fractions num/den:           *)
(* den > 0 is a finite value, 0/0 is NaN, 1/0 is +inf, -1/0 is -inf.       *)
(* Rounding is not modelled; signed zero is not modelled.                  *)
(* Indices are 0-based as in the code; sequences are 1-based, so element   *)
(* i of a code vector v is v[i + 1].                                       *)
(***************************************************************************)
EXTENDS Integers, Sequences, FiniteSets, TLC

(* ---------------------------- bounds ----------------------------------- *)
\* the conversion followed by an export
MaxVerts == 3
MaxFaces == 1
MaxJsonLen == 5
\* the normal computation on its own
MaxNormalVerts == 2
MaxNormalFaces == 2
\* bounding_coords on its own
MaxPoints == 3

(* ---------------------------- f32 -------------------------------------- *)
\* Stand-in for f32::MAX (3.4028235e38): a finite value above every finite
\* coordinate the model draws. f32::MIN is its negation.
F32_MAX == 1000

Abs(n) == IF n < 0 THEN -n ELSE n

RECURSIVE GCD(_, _)
GCD(a, b) == IF b = 0 THEN a ELSE GCD(b, a % b)

Reduce(n, d) ==
    LET g == GCD(Abs(n), d) IN [num |-> n \div g, den |-> d \div g]

Fin(n) == [num |-> n, den |-> 1]
NaN == [num |-> 0, den |-> 0]
PosInf == [num |-> 1, den |-> 0]
NegInf == [num |-> -1, den |-> 0]

IsNaN(a) == a.den = 0 /\ a.num = 0
IsInf(a) == a.den = 0 /\ a.num # 0
IsFinite(a) == a.den > 0

\* a < b on f32 (false whenever an operand is NaN)
F32Lt(a, b) ==
    /\ ~IsNaN(a)
    /\ ~IsNaN(b)
    /\ IF a.den = 0 /\ b.den = 0
       THEN a.num < b.num
       ELSE a.num * b.den < b.num * a.den

F32Le(a, b) == ~IsNaN(a) /\ ~IsNaN(b) /\ ~F32Lt(b, a)

\* a + b on f32
F32Add(a, b) ==
    IF IsNaN(a) \/ IsNaN(b) THEN NaN
    ELSE IF IsInf(a) THEN (IF IsInf(b) /\ b.num # a.num THEN NaN ELSE a)
    ELSE IF IsInf(b) THEN b
    ELSE Reduce(a.num * b.den + b.num * a.den, a.den * b.den)

\* a / b on f32, for a divisor b that is a finite value >= 0 (a count)
F32Div(a, b) ==
    IF IsNaN(a) THEN NaN
    ELSE IF b.num = 0
         THEN (IF a.num = 0 THEN NaN ELSE IF a.num > 0 THEN PosInf ELSE NegInf)
    ELSE IF IsInf(a) THEN a
    ELSE Reduce(a.num * b.den, a.den * b.num)

\* f32::min / f32::max: if one argument is NaN the other is returned
F32Min(a, b) == IF IsNaN(a) THEN b ELSE IF IsNaN(b) THEN a ELSE IF F32Lt(b, a) THEN b ELSE a
F32Max(a, b) == IF IsNaN(a) THEN b ELSE IF IsNaN(b) THEN a ELSE IF F32Lt(a, b) THEN b ELSE a

\* `count as f32` for an i32 count
AsF32(n) == Fin(n)

Axes == 1..3
Zero3 == <<Fin(0), Fin(0), Fin(0)>>

(* ---------------------------- Option ----------------------------------- *)
None == <<>>
Some(x) == <<x>>
IsSome(o) == Len(o) = 1
Unwrap(o) == o[1]

(* ---------------------------- bounding_coords -------------------------- *)
RECURSIVE BoundingFold(_, _, _, _)
BoundingFold(points, k, min, max) ==
    IF k > Len(points) THEN <<min, max>>
    ELSE BoundingFold(points, k + 1,
                      [i \in Axes |-> F32Min(min[i], points[k][i])],
                      [i \in Axes |-> F32Max(max[i], points[k][i])])

bounding_coords_FromZero(points) ==
    BoundingFold(points, 1, Zero3, Zero3)

bounding_coords(points) ==
    BoundingFold(points, 1,
                 <<Fin(F32_MAX), Fin(F32_MAX), Fin(F32_MAX)>>,
                 <<Fin(-F32_MAX), Fin(-F32_MAX), Fin(-F32_MAX)>>)

(* ---------------------------- GltfBuilder ------------------------------ *)
\* Size in bytes of one f32 or u32 component in a buffer.
ComponentBytes == 4

\* A typed array handed to push_buffer_with_view, with the size in bytes of
\* one element: Vec<[f32; 3]> or Vec<u32>. Vec3Array_Half is what a vector
\* of three half-precision components would be.
Vec3Array_Half(elems) == [ty |-> "Vec3F32", elem_bytes |-> 6, elems |-> elems]
Vec3Array(elems) == [ty |-> "Vec3F32", elem_bytes |-> 3 * ComponentBytes, elems |-> elems]
U32Array(elems) == [ty |-> "U32", elem_bytes |-> ComponentBytes, elems |-> elems]

\* The raw contents of a typed array, one entry per 4-byte component.
ToWords(arr) ==
    IF arr.ty = "U32"
    THEN [k \in 1..Len(arr.elems) |-> [ty |-> "u32", v |-> Fin(arr.elems[k])]]
    ELSE [k \in 1..(3 * Len(arr.elems)) |->
            [ty |-> "f32", v |-> arr.elems[((k - 1) \div 3) + 1][((k - 1) % 3) + 1]]]

ByteLen(arr) == Len(arr.elems) * arr.elem_bytes

GltfBuilder_new ==
    [buffers |-> <<>>, views |-> <<>>, accessors |-> <<>>, meshes |-> <<>>,
     nodes |-> <<>>, scenes |-> <<>>, default_scene |-> None]

\* Each push returns <<builder after the push, index of the new entity>>.
push_buffer_with_view(g, name, arr, target, byte_stride) ==
    LET buffer == [name |-> name, byte_length |-> ByteLen(arr), uri |-> None,
                   data |-> ToWords(arr)]
        view == [name |-> name, buffer |-> Len(g.buffers), byte_offset |-> 0,
                 byte_length |-> ByteLen(arr), target |-> target,
                 byte_stride |-> byte_stride]
    IN <<[g EXCEPT !.buffers = Append(@, buffer), !.views = Append(@, view)],
         Len(g.views)>>

push_accessor_vec3(g, name, view, byte_offset, count, min, max) ==
    LET acc == [name |-> name, buffer_view |-> view, byte_offset |-> byte_offset,
                count |-> count, component_type |-> "F32", type |-> "Vec3",
                min |-> min, max |-> max]
    IN <<[g EXCEPT !.accessors = Append(@, acc)], Len(g.accessors)>>

push_accessor_u32(g, name, view, byte_offset, count) ==
    LET acc == [name |-> name, buffer_view |-> view, byte_offset |-> byte_offset,
                count |-> count, component_type |-> "U32", type |-> "Scalar",
                min |-> None, max |-> None]
    IN <<[g EXCEPT !.accessors = Append(@, acc)], Len(g.accessors)>>

push_mesh(g, name, primitives, weights) ==
    <<[g EXCEPT !.meshes = Append(@, [name |-> name, primitives |-> primitives,
                                      weights |-> weights])],
      Len(g.meshes)>>

push_node(g, name, mesh, transform, children) ==
    <<[g EXCEPT !.nodes = Append(@, [name |-> name, mesh |-> mesh,
                                     transform |-> transform, children |-> children])],
      Len(g.nodes)>>

push_scene(g, nodes) ==
    <<[g EXCEPT !.scenes = Append(@, [nodes |-> nodes])], Len(g.scenes)>>

set_default_scene(g, scene) == [g EXCEPT !.default_scene = scene]

(* ---------------------------- serializer ------------------------------- *)
RECURSIVE SumLen(_, _)
SumLen(buffers, k) ==
    IF k = 0 THEN 0 ELSE SumLen(buffers, k - 1) + buffers[k].byte_length

RECURSIVE ConcatData(_, _)
ConcatData(buffers, k) ==
    IF k = 0 THEN <<>> ELSE ConcatData(buffers, k - 1) \o buffers[k].data

\* merge_gltf_buffers: one buffer holding every buffer's bytes in order, each
\* view moved to where its buffer starts in the merged buffer.
merge_gltf_buffers(g) ==
    LET n == Len(g.buffers)
        merged == [name |-> None, byte_length |-> SumLen(g.buffers, n), uri |-> None,
                   data |-> ConcatData(g.buffers, n)]
        move(view) == [view EXCEPT !.buffer = 0,
                                   !.byte_offset = SumLen(g.buffers, view.buffer) + @]
    IN [g EXCEPT !.buffers = <<merged>>,
                 !.views = [k \in 1..Len(g.views) |-> move(g.views[k])]]

\* set_buffer_uri: <<ok, builder>>; fails when the buffer does not exist.
set_buffer_uri(g, index, uri) ==
    IF index < Len(g.buffers)
    THEN <<TRUE, [g EXCEPT !.buffers[index + 1].uri = uri]>>
    ELSE <<FALSE, g>>

\* The JSON document: the graph without the buffers' bytes.
ToJson(g) ==
    [g EXCEPT !.buffers = [k \in 1..Len(g.buffers) |->
                             [name |-> g.buffers[k].name,
                              byte_length |-> g.buffers[k].byte_length,
                              uri |-> g.buffers[k].uri]]]

\* write_all_buffers: <<ok, files written>>; a buffer without URI stops the
\* sequence with the files written so far.
RECURSIVE WriteBuffers(_, _, _)
WriteBuffers(buffers, k, files) ==
    IF k > Len(buffers) THEN <<TRUE, files>>
    ELSE IF ~IsSome(buffers[k].uri) THEN <<FALSE, files>>
    ELSE WriteBuffers(buffers, k + 1,
                      Append(files, [name |-> Unwrap(buffers[k].uri),
                                     length |-> Len(buffers[k].data) * ComponentBytes,
                                     data |-> buffers[k].data]))

write_all_buffers(g) == WriteBuffers(g.buffers, 1, <<>>)

\* to_glb: the JSON text (json_len bytes) and the binary chunk, every buffer's
\* bytes in buffer order.
to_glb(g, json_len) ==
    [json |-> ToJson(g), json_len |-> json_len,
     bin |-> ConcatData(g.buffers, Len(g.buffers)),
     bin_len |-> SumLen(g.buffers, Len(g.buffers))]

HeaderBytes == 12
ChunkHeaderBytes == 8

\* Number of padding bytes that bring n bytes to a 4-byte boundary.
PadCount_Always(n) == 4 - (n % 4)

PadCount(n) == (4 - (n % 4)) % 4

\* Glb::to_writer: the file header, then each chunk header followed by its
\* payload and its padding. Each segment records the bytes it occupies in
\* the file and the length it declares.
glb_to_writer(glb) ==
    LET json_chunk == glb.json_len + PadCount(glb.json_len)
        bin_chunk == glb.bin_len + PadCount(glb.bin_len)
        total == HeaderBytes + ChunkHeaderBytes + json_chunk
                 + ChunkHeaderBytes + bin_chunk
    IN <<[kind |-> "header", bytes |-> HeaderBytes, declared |-> total, data |-> <<>>],
         [kind |-> "json_chunk_header", bytes |-> ChunkHeaderBytes,
          declared |-> json_chunk, data |-> <<>>],
         [kind |-> "json", bytes |-> glb.json_len, declared |-> glb.json_len,
          data |-> <<>>],
         [kind |-> "json_padding", bytes |-> PadCount(glb.json_len),
          declared |-> 0, data |-> <<>>],
         [kind |-> "bin_chunk_header", bytes |-> ChunkHeaderBytes,
          declared |-> bin_chunk, data |-> <<>>],
         [kind |-> "bin", bytes |-> Len(glb.bin) * ComponentBytes,
          declared |-> glb.bin_len, data |-> glb.bin],
         [kind |-> "bin_padding", bytes |-> PadCount(glb.bin_len),
          declared |-> 0, data |-> <<>>]>>

(* ---------------------------- inputs ----------------------------------- *)
P3(x, y, z) == <<x, y, z>>

\* An indexed mesh holds each distinct vertex once: vertex k of the meshes
\* handed to the conversion (the first three are a unit triangle).
VertexAt(k) ==
    IF k = 1 THEN P3(Fin(0), Fin(0), Fin(0))
    ELSE IF k = 2 THEN P3(Fin(1), Fin(0), Fin(0))
    ELSE IF k = 3 THEN P3(Fin(0), Fin(1), Fin(0))
    ELSE P3(Fin(k), Fin(-k), Fin(1))

\* The normal of face k.
NormalAt(k) == P3(Fin(k - 1), Fin(1 - k), Fin(1))

SeqsUpTo(S, n) == UNION {[1..k -> S] : k \in 0..n}

\* Meshes of at most maxV vertices and maxF faces. A face index is any usize
\* below maxV: it is out of range for a mesh with fewer vertices.
IndexedMeshes(maxV, maxF) ==
    { [vertices |-> [k \in 1..v |-> VertexAt(k)],
       faces |-> [k \in 1..Len(t) |-> [vertices |-> t[k], normal |-> NormalAt(k)]]] :
        v \in 0..maxV, t \in SeqsUpTo([1..3 -> 0..(maxV - 1)], maxF) }

\* Points handed to bounding_coords on its own.
BoundingPoints ==
    {P3(Fin(0), Fin(0), Fin(0)), P3(Fin(1), Fin(0), Fin(0)), P3(Fin(0), Fin(1), Fin(0)),
     P3(Fin(-1), Fin(2), Fin(-3)), P3(Fin(-2), Fin(-5), Fin(-1)),
     P3(NaN, Fin(0), Fin(1)), P3(Fin(5), PosInf, Fin(0)), P3(Fin(0), Fin(-4), NegInf)}

FileStems == {"torus"}
JsonLens == 2..MaxJsonLen

InRange(m) ==
    \A k \in 1..Len(m.faces) : \A c \in 1..3 : m.faces[k].vertices[c] < Len(m.vertices)

(* ---------------------------- state ------------------------------------ *)
VARIABLES
    stl,            \* the IndexedMesh argument
    mesh_name,      \* file stem of input_filename
    pc,             \* position in convert_stl_to_gltf / the export sequence
    positions,      \* Vec<[f32; 3]>
    normals,        \* Vec<[f32; 3]>
    normals_count,  \* Vec<i32>
    face_i,         \* next face of the accumulation loop (1-based)
    bounds,         \* (min, max) returned by bounding_coords
    gltf,           \* the GltfBuilder
    ids,            \* indices returned by the pushes, None until assigned
    glb,            \* result of to_glb
    glb_file,       \* segments written by Glb::to_writer
    gltf_file,      \* JSON document written by write_to_gltf
    bin_files,      \* files written by write_all_buffers
    bc_points,      \* argument of a direct bounding_coords call
    bc_result       \* its result

geom == <<positions, normals, normals_count, face_i, bounds>>
outs == <<glb, glb_file, gltf_file, bin_files>>
bc == <<bc_points, bc_result>>
vars == <<stl, mesh_name, pc, geom, gltf, ids, outs, bc>>

NoIds ==
    [positions_view |-> None, normals_view |-> None, positions |-> None,
     normals |-> None, indices_view |-> None, indices |-> None,
     mesh |-> None, node |-> None, scene |-> None]

InitLocals ==
    /\ positions = <<>>
    /\ normals = <<>>
    /\ normals_count = <<>>
    /\ face_i = 1
    /\ bounds = None
    /\ gltf = GltfBuilder_new
    /\ ids = NoIds
    /\ glb = None
    /\ glb_file = <<>>
    /\ gltf_file = None
    /\ bin_files = <<>>

Init ==
    /\ stl \in IndexedMeshes(MaxVerts, MaxFaces)
    /\ mesh_name \in FileStems
    /\ pc = "start"
    /\ InitLocals
    /\ bc_points = <<>>
    /\ bc_result = None

(* ---------------------------- convert_stl_to_gltf ---------------------- *)
\* lines 51-60: the builder, positions, zeroed normals and counts
Collect ==
    /\ pc = "start"
    /\ gltf' = GltfBuilder_new
    /\ positions' = [k \in 1..Len(stl.vertices) |->
                        <<stl.vertices[k][1], stl.vertices[k][2], stl.vertices[k][3]>>]
    /\ normals' = [k \in 1..Len(stl.vertices) |-> Zero3]
    /\ normals_count' = [k \in 1..Len(stl.vertices) |-> 0]
    /\ face_i' = 1
    /\ pc' = "accumulate"
    /\ UNCHANGED <<stl, mesh_name, bounds, ids, outs, bc>>

\* One corner of a face: normals[vi] += face.normal; normals_count[vi] += 1.
\* The state is <<ok, normals, normals_count>>; indexing past the end panics.
AddCorner_NoCount(st, face, c) ==
    LET vi == face.vertices[c] IN
    IF ~st[1] THEN st
    ELSE IF vi >= Len(st[2]) THEN <<FALSE, st[2], st[3]>>
    ELSE <<TRUE,
           [st[2] EXCEPT ![vi + 1] = [i \in Axes |-> F32Add(@[i], face.normal[i])]],
           [st[3] EXCEPT ![vi + 1] = 1]>>

AddCorner(st, face, c) ==
    LET vi == face.vertices[c] IN
    IF ~st[1] THEN st
    ELSE IF vi >= Len(st[2]) THEN <<FALSE, st[2], st[3]>>
    ELSE <<TRUE,
           [st[2] EXCEPT ![vi + 1] = [i \in Axes |-> F32Add(@[i], face.normal[i])]],
           [st[3] EXCEPT ![vi + 1] = @ + 1]>>

AddFace(ns, cs, face) ==
    AddCorner(AddCorner(AddCorner(<<TRUE, ns, cs>>, face, 1), face, 2), face, 3)

\* lines 61-68: one iteration of `for face in &stl.faces`
AccumulateFace ==
    /\ pc = "accumulate"
    /\ face_i <= Len(stl.faces)
    /\ LET r == AddFace(normals, normals_count, stl.faces[face_i]) IN
        /\ normals' = r[2]
        /\ normals_count' = r[3]
        /\ pc' = IF r[1] THEN "accumulate" ELSE "panicked"
    /\ face_i' = face_i + 1
    /\ UNCHANGED <<stl, mesh_name, positions, bounds, gltf, ids, outs, bc>>

NormalizeOne_Guarded(n, count) ==
    IF count = 0 THEN n ELSE [i \in Axes |-> F32Div(n[i], AsF32(count))]

NormalizeOne(n, count) ==
    [i \in Axes |-> F32Div(n[i], AsF32(count))]

\* lines 70-75: normals[i] = normals[i] / normals_count[i]
Normalize ==
    /\ pc = "accumulate"
    /\ face_i > Len(stl.faces)
    /\ normals' = [k \in 1..Len(normals) |-> NormalizeOne(normals[k], normals_count[k])]
    /\ pc' = "bounding"
    /\ UNCHANGED <<stl, mesh_name, positions, normals_count, face_i, bounds, gltf, ids,
                   outs, bc>>

\* line 77
Bounding ==
    /\ pc = "bounding"
    /\ bounds' = Some(bounding_coords(positions))
    /\ pc' = "push_positions_view"
    /\ UNCHANGED <<stl, mesh_name, positions, normals, normals_count, face_i, gltf, ids,
                   outs, bc>>

Min == Unwrap(bounds)[1]
Max == Unwrap(bounds)[2]
vcount == Len(positions)

Frame == UNCHANGED <<stl, mesh_name, geom, outs, bc>>

\* lines 81-82
PushPositionsView ==
    /\ pc = "push_positions_view"
    /\ LET r == push_buffer_with_view(gltf, Some("positions"), Vec3Array(positions),
                                      None, None) IN
        /\ gltf' = r[1]
        /\ ids' = [ids EXCEPT !.positions_view = Some(r[2])]
    /\ pc' = "push_normals_view"
    /\ Frame

\* line 84
PushNormalsView ==
    /\ pc = "push_normals_view"
    /\ LET r == push_buffer_with_view(gltf, Some("normals"), Vec3Array(normals),
                                      None, None) IN
        /\ gltf' = r[1]
        /\ ids' = [ids EXCEPT !.normals_view = Some(r[2])]
    /\ pc' = "push_positions_accessor"
    /\ Frame

\* byte offset handed to push_accessor_vec3 for the normals (line 97)
NormalsByteOffset == 3

\* lines 86-93
PushPositionsAccessor ==
    /\ pc = "push_positions_accessor"
    /\ LET r == push_accessor_vec3(gltf, Some("positions"), Unwrap(ids.positions_view),
                                   0, vcount, Some(Min), Some(Max)) IN
        /\ gltf' = r[1]
        /\ ids' = [ids EXCEPT !.positions = Some(r[2])]
    /\ pc' = "push_normals_accessor"
    /\ Frame

\* lines 94-101
PushNormalsAccessor ==
    /\ pc = "push_normals_accessor"
    /\ LET r == push_accessor_vec3(gltf, Some("normals"), Unwrap(ids.normals_view),
                                   NormalsByteOffset, vcount, None, None) IN
        /\ gltf' = r[1]
        /\ ids' = [ids EXCEPT !.normals = Some(r[2])]
    /\ pc' = "push_indices_view"
    /\ Frame

\* lines 103-113: the three vertex indices of every face, in face order
Indices_PerFace(faces) == [k \in 1..Len(faces) |-> faces[k].vertices[1]]

Indices(faces) == [k \in 1..(3 * Len(faces)) |->
                      faces[((k - 1) \div 3) + 1].vertices[((k - 1) % 3) + 1]]

nb_indices == Len(Indices(stl.faces))

\* lines 115-116
PushIndicesView ==
    /\ pc = "push_indices_view"
    /\ LET r == push_buffer_with_view(gltf, Some("indices"), U32Array(Indices(stl.faces)),
                                      Some(1), None) IN
        /\ gltf' = r[1]
        /\ ids' = [ids EXCEPT !.indices_view = Some(r[2])]
    /\ pc' = "push_indices_accessor"
    /\ Frame

\* lines 117-121 (with_indices is true)
PushIndicesAccessor ==
    /\ pc = "push_indices_accessor"
    /\ LET r == push_accessor_u32(gltf, Some("indices"), Unwrap(ids.indices_view),
                                  0, nb_indices) IN
        /\ gltf' = r[1]
        /\ ids' = [ids EXCEPT !.indices = Some(r[2])]
    /\ pc' = "push_mesh"
    /\ Frame

\* lines 123-136
Primitive ==
    [attributes |-> [Positions |-> Unwrap(ids.positions), Normals |-> Unwrap(ids.normals)],
     indices |-> ids.indices, material |-> None, mode |-> "Triangles", targets |-> None]

\* line 138
PushMesh ==
    /\ pc = "push_mesh"
    /\ LET r == push_mesh(gltf, Some(mesh_name), <<Primitive>>, None) IN
        /\ gltf' = r[1]
        /\ ids' = [ids EXCEPT !.mesh = Some(r[2])]
    /\ pc' = "push_node"
    /\ Frame

PushNode_NodeAsMesh ==
    /\ pc = "push_node"
    /\ LET r == push_node(gltf, Some(mesh_name), Some(Len(gltf.nodes) + 1), None, None) IN
        /\ gltf' = r[1]
        /\ ids' = [ids EXCEPT !.node = Some(r[2])]
    /\ pc' = "push_scene"
    /\ Frame

\* line 139
PushNode ==
    /\ pc = "push_node"
    /\ LET r == push_node(gltf, Some(mesh_name), Some(Unwrap(ids.mesh)), None, None) IN
        /\ gltf' = r[1]
        /\ ids' = [ids EXCEPT !.node = Some(r[2])]
    /\ pc' = "push_scene"
    /\ Frame

\* line 140
PushScene ==
    /\ pc = "push_scene"
    /\ LET r == push_scene(gltf, <<Unwrap(ids.node)>>) IN
        /\ gltf' = r[1]
        /\ ids' = [ids EXCEPT !.scene = Some(r[2])]
    /\ pc' = "set_default_scene"
    /\ Frame

\* lines 141-143
SetDefaultScene ==
    /\ pc = "set_default_scene"
    /\ gltf' = set_default_scene(gltf, Some(Unwrap(ids.scene)))
    /\ pc' = "converted"
    /\ UNCHANGED ids
    /\ Frame

(* ---------------------------- export ---------------------------------- *)
\* tests::test_glb, line 172: the JSON text has some length json_len
ToGlb ==
    /\ pc = "converted"
    /\ \E json_len \in JsonLens : glb' = Some(to_glb(gltf, json_len))
    /\ pc' = "glb_built"
    /\ UNCHANGED <<stl, mesh_name, geom, gltf, ids, glb_file, gltf_file, bin_files, bc>>

\* tests::test_glb, line 173
GlbToWriter ==
    /\ pc = "glb_built"
    /\ glb_file' = glb_to_writer(Unwrap(glb))
    /\ pc' = "glb_written"
    /\ UNCHANGED <<stl, mesh_name, geom, gltf, ids, glb, gltf_file, bin_files, bc>>

\* tests::test_gltf, line 195
MergeGltfBuffers ==
    /\ pc = "converted"
    /\ gltf' = merge_gltf_buffers(gltf)
    /\ pc' = "merged"
    /\ UNCHANGED <<stl, mesh_name, geom, ids, outs, bc>>

\* "<stem>.bin" for the output path's file stem
BinUri == <<mesh_name, ".bin">>

SetBufferUri_Index1 ==
    /\ pc = "merged"
    /\ LET r == set_buffer_uri(gltf, 1, Some(BinUri)) IN
        /\ gltf' = r[2]
        /\ pc' = IF r[1] THEN "uri_set" ELSE "export_failed"
    /\ UNCHANGED <<stl, mesh_name, geom, ids, outs, bc>>

\* tests::test_gltf, lines 196-207: unwrap panics when set_buffer_uri fails
SetBufferUri ==
    /\ pc = "merged"
    /\ LET r == set_buffer_uri(gltf, 0, Some(BinUri)) IN
        /\ gltf' = r[2]
        /\ pc' = IF r[1] THEN "uri_set" ELSE "export_failed"
    /\ UNCHANGED <<stl, mesh_name, geom, ids, outs, bc>>

\* tests::test_gltf, line 208
WriteToGltf ==
    /\ pc = "uri_set"
    /\ gltf_file' = Some(ToJson(gltf))
    /\ pc' = "gltf_written"
    /\ UNCHANGED <<stl, mesh_name, geom, gltf, ids, glb, glb_file, bin_files, bc>>

\* tests::test_gltf, lines 209-210: unwrap panics when a buffer has no URI
WriteAllBuffers ==
    /\ pc = "gltf_written"
    /\ LET r == write_all_buffers(gltf) IN
        /\ bin_files' = r[2]
        /\ pc' = IF r[1] THEN "buffers_written" ELSE "export_failed"
    /\ UNCHANGED <<stl, mesh_name, geom, gltf, ids, glb, glb_file, gltf_file, bc>>

Convert ==
    \/ Collect
    \/ AccumulateFace
    \/ Normalize
    \/ Bounding
    \/ PushPositionsView
    \/ PushNormalsView
    \/ PushPositionsAccessor
    \/ PushNormalsAccessor
    \/ PushIndicesView
    \/ PushIndicesAccessor
    \/ PushMesh
    \/ PushNode
    \/ PushScene
    \/ SetDefaultScene

Next ==
    \/ Convert
    \/ ToGlb
    \/ GlbToWriter
    \/ MergeGltfBuffers
    \/ SetBufferUri
    \/ WriteToGltf
    \/ WriteAllBuffers

Spec == Init /\ [][Next]_vars

(* ---------------------------- bounding_coords on its own --------------- *)
EmptyMesh == [vertices |-> <<>>, faces |-> <<>>]

InitBounding ==
    /\ stl = EmptyMesh
    /\ mesh_name \in FileStems
    /\ pc = "bc_call"
    /\ InitLocals
    /\ bc_points \in SeqsUpTo(BoundingPoints, MaxPoints)
    /\ bc_result = None

BoundingCoordsCall ==
    /\ pc = "bc_call"
    /\ bc_result' = Some(bounding_coords(bc_points))
    /\ pc' = "bc_done"
    /\ UNCHANGED <<stl, mesh_name, geom, gltf, ids, outs, bc_points>>

NextBounding == BoundingCoordsCall

SpecBounding == InitBounding /\ [][NextBounding]_vars

(* ---------------------------- the normals on their own ----------------- *)
InitNormals ==
    /\ stl \in IndexedMeshes(MaxNormalVerts, MaxNormalFaces)
    /\ mesh_name \in FileStems
    /\ pc = "start"
    /\ InitLocals
    /\ bc_points = <<>>
    /\ bc_result = None

NextNormals ==
    \/ Collect
    \/ AccumulateFace
    \/ Normalize

SpecNormals == InitNormals /\ [][NextNormals]_vars

(* ======================================================================= *)
(* Properties                                                              *)
(* ======================================================================= *)
NumVerts == Len(stl.vertices)
NumFaces == Len(stl.faces)

\* convert_stl_to_gltf has returned Ok(gltf)
Returned ==
    pc \in {"converted", "glb_built", "glb_written", "merged", "uri_set",
            "gltf_written", "buffers_written", "export_failed"}

\* the normalisation loop has run
Normalized == pc \notin {"start", "accumulate", "panicked", "bc_call", "bc_done"}

ViewOf(acc) == gltf.views[acc.buffer_view + 1]
ElemBytes(acc) == IF acc.type = "Vec3" THEN 12 ELSE 4

(* ----------------------------------------------------------------------- *)
(* C1: for a mesh with at least one vertex, every accessor of the document *)
(* satisfies byteOffset + count * elementByteSize <= length of its view    *)
(* (12 bytes per float 3-vector, 4 per uint32 scalar).                     *)
(* ----------------------------------------------------------------------- *)
C1_AccessorsFitViews ==
    (Returned /\ NumVerts >= 1) =>
        \A a \in 1..Len(gltf.accessors) :
            LET acc == gltf.accessors[a] IN
            acc.byte_offset + acc.count * ElemBytes(acc) <= ViewOf(acc).byte_length

(* ----------------------------------------------------------------------- *)
(* C2: when every face index is in range and every vertex is referenced,   *)
(* there is one normal per vertex and each component of the normal of      *)
(* vertex v is the sum of the normals of the face corners referencing v    *)
(* divided by the number of those corners.                                 *)
(* ----------------------------------------------------------------------- *)
Corners(v) ==
    {kc \in (1..NumFaces) \X (1..3) : stl.faces[kc[1]].vertices[kc[2]] = v}

RefCount(v) == Cardinality(Corners(v))

RECURSIVE SumOver(_, _)
SumOver(S, i) ==
    IF S = {} THEN 0
    ELSE LET kc == CHOOSE x \in S : TRUE
         IN stl.faces[kc[1]].normal[i].num + SumOver(S \ {kc}, i)

AllReferenced == \A v \in 0..(NumVerts - 1) : RefCount(v) >= 1

C2_NormalIsMean ==
    (Normalized /\ InRange(stl) /\ AllReferenced) =>
        /\ Len(normals) = NumVerts
        /\ \A v \in 0..(NumVerts - 1) : \A i \in Axes :
              LET q == normals[v + 1][i] IN
              /\ IsFinite(q)
              /\ q.num * RefCount(v) = q.den * SumOver(Corners(v), i)

C2_Witness ==
    /\ Normalized /\ InRange(stl) /\ AllReferenced
    /\ NumVerts >= 2
    /\ \E v \in 0..(NumVerts - 1) :
          /\ \E kc1, kc2 \in Corners(v) : kc1[1] # kc2[1]
          /\ \E i \in Axes : normals[v + 1][i].den > 1

(* ----------------------------------------------------------------------- *)
(* C9 (as claimed): a vertex referenced by no face keeps the normal        *)
(* [0, 0, 0], the division by its zero count being guarded.                *)
(* ----------------------------------------------------------------------- *)
C9_ZeroCountGuarded ==
    Normalized =>
        \A v \in 0..(NumVerts - 1) : RefCount(v) = 0 => normals[v + 1] = Zero3

(* ----------------------------------------------------------------------- *)
(* C9 (amended): a vertex referenced by no face is divided by its zero     *)
(* count without a guard: each component of its normal is 0.0 / 0.0 = NaN. *)
(* ----------------------------------------------------------------------- *)
C9_ZeroCountIsNaN ==
    Normalized =>
        \A v \in 0..(NumVerts - 1) :
            RefCount(v) = 0 => normals[v + 1] = <<NaN, NaN, NaN>>

C9_Witness ==
    /\ Normalized
    /\ NumFaces >= 1
    /\ \E v \in 0..(NumVerts - 1) : RefCount(v) = 0

(* ----------------------------------------------------------------------- *)
(* C3: the returned document has exactly one mesh with exactly one         *)
(* primitive whose index accessor counts 3 * F indices, exactly one node   *)
(* referencing that mesh, exactly one scene listing exactly that node, and *)
(* the default scene is that scene.                                        *)
(* ----------------------------------------------------------------------- *)
C3_OneMeshNodeScene ==
    Returned =>
        /\ Len(gltf.meshes) = 1
        /\ Len(gltf.meshes[1].primitives) = 1
        /\ LET prim == gltf.meshes[1].primitives[1] IN
            /\ IsSome(prim.indices)
            /\ Unwrap(prim.indices) < Len(gltf.accessors)
            /\ gltf.accessors[Unwrap(prim.indices) + 1].count = 3 * NumFaces
        /\ Len(gltf.nodes) = 1
        /\ gltf.nodes[1].mesh = Some(0)
        /\ Len(gltf.scenes) = 1
        /\ gltf.scenes[1].nodes = <<0>>
        /\ gltf.default_scene = Some(0)

C3_Witness ==
    /\ pc = "converted"
    /\ NumVerts = 3
    /\ NumFaces = 1
    /\ stl.faces[1].vertices = <<0, 1, 2>>

(* ----------------------------------------------------------------------- *)
(* C4 (as claimed): for every non-empty list of points, on every axis      *)
(* min <= max, every point lies within [min, max], and min and max are     *)
(* each attained by some point.                                            *)
(* ----------------------------------------------------------------------- *)
BoxOk(points, min, max) ==
    \A i \in Axes :
        /\ F32Le(min[i], max[i])
        /\ \A k \in 1..Len(points) :
              F32Le(min[i], points[k][i]) /\ F32Le(points[k][i], max[i])
        /\ \E k \in 1..Len(points) : points[k][i] = min[i]
        /\ \E k \in 1..Len(points) : points[k][i] = max[i]

AllFinite(points) == \A k \in 1..Len(points) : \A i \in Axes : IsFinite(points[k][i])

SentinelMin == <<Fin(F32_MAX), Fin(F32_MAX), Fin(F32_MAX)>>
SentinelMax == <<Fin(-F32_MAX), Fin(-F32_MAX), Fin(-F32_MAX)>>

C5_SentinelNotAttached ==
    (NumVerts = 0 /\ IsSome(ids.positions)) =>
        /\ bounds = Some(<<SentinelMin, SentinelMax>>)
        /\ LET acc == gltf.accessors[Unwrap(ids.positions) + 1] IN
            /\ acc.min # Some(SentinelMin)
            /\ acc.max # Some(SentinelMax)

(* ----------------------------------------------------------------------- *)
(* C6: every buffer view, before and after merge_gltf_buffers, starts at a *)
(* multiple of 4, ends within its buffer, and overlaps no other view of    *)
(* the same buffer.                                                        *)
(* ----------------------------------------------------------------------- *)
Overlap(v, w) ==
    /\ v.buffer = w.buffer
    /\ v.byte_offset < w.byte_offset + w.byte_length
    /\ w.byte_offset < v.byte_offset + v.byte_length

C6_ViewsAlignedDisjoint ==
    /\ \A k \in 1..Len(gltf.views) :
          LET v == gltf.views[k] IN
          /\ v.byte_offset % 4 = 0
          /\ v.buffer < Len(gltf.buffers)
          /\ v.byte_offset + v.byte_length <= gltf.buffers[v.buffer + 1].byte_length
    /\ \A k, l \in 1..Len(gltf.views) :
          k # l => ~Overlap(gltf.views[k], gltf.views[l])
    /\ pc \notin {"merged", "uri_set", "gltf_written", "buffers_written"} =>
          \A k \in 1..Len(gltf.views) : gltf.views[k].buffer = k - 1

C6_Witness ==
    /\ pc = "merged"
    /\ NumVerts >= 1
    /\ NumFaces >= 1
    /\ Len(gltf.views) = 3
    /\ \A k \in 1..3 : gltf.views[k].buffer = 0 /\ gltf.views[k].byte_length > 0

(* ----------------------------------------------------------------------- *)
(* C7: the file written by to_glb and to_writer declares in its header a   *)
(* total length equal to its actual length, which is 12 + 8 + padded JSON  *)
(* length + 8 + padded binary length; both padded lengths are multiples of *)
(* 4 and the binary chunk is every buffer's bytes in push order.           *)
(* ----------------------------------------------------------------------- *)
RECURSIVE FileBytes(_, _)
FileBytes(segments, k) ==
    IF k = 0 THEN 0 ELSE FileBytes(segments, k - 1) + segments[k].bytes

Segment(kind) == CHOOSE seg \in {glb_file[k] : k \in 1..Len(glb_file)} : seg.kind = kind

PushedBytes == 12 * NumVerts + 12 * NumVerts + 4 * (3 * NumFaces)

RefsInRange ==
    /\ \A k \in 1..Len(gltf.views) : gltf.views[k].buffer < Len(gltf.buffers)
    /\ \A k \in 1..Len(gltf.accessors) : gltf.accessors[k].buffer_view < Len(gltf.views)
    /\ \A k \in 1..Len(gltf.meshes) : \A j \in 1..Len(gltf.meshes[k].primitives) :
          LET prim == gltf.meshes[k].primitives[j] IN
          /\ prim.attributes.Positions < Len(gltf.accessors)
          /\ prim.attributes.Normals < Len(gltf.accessors)
          /\ IsSome(prim.indices) => Unwrap(prim.indices) < Len(gltf.accessors)
    /\ \A k \in 1..Len(gltf.nodes) :
          IsSome(gltf.nodes[k].mesh) => Unwrap(gltf.nodes[k].mesh) < Len(gltf.meshes)
    /\ \A k \in 1..Len(gltf.scenes) : \A j \in 1..Len(gltf.scenes[k].nodes) :
          gltf.scenes[k].nodes[j] < Len(gltf.nodes)
    /\ IsSome(gltf.default_scene) => Unwrap(gltf.default_scene) < Len(gltf.scenes)

\* What a step of the push sequence returns, against the lengths before it.
PushReturnsPriorLength ==
    /\ pc = "push_positions_view" => ids'.positions_view = Some(Len(gltf.views))
    /\ pc = "push_normals_view" => ids'.normals_view = Some(Len(gltf.views))
    /\ pc = "push_positions_accessor" => ids'.positions = Some(Len(gltf.accessors))
    /\ pc = "push_normals_accessor" => ids'.normals = Some(Len(gltf.accessors))
    /\ pc = "push_indices_view" => ids'.indices_view = Some(Len(gltf.views))
    /\ pc = "push_indices_accessor" => ids'.indices = Some(Len(gltf.accessors))
    /\ pc = "push_mesh" => ids'.mesh = Some(Len(gltf.meshes))
    /\ pc = "push_node" => ids'.node = Some(Len(gltf.nodes))
    /\ pc = "push_scene" => ids'.scene = Some(Len(gltf.scenes))
    /\ pc \in {"push_positions_view", "push_normals_view", "push_indices_view"} =>
          /\ Len(gltf'.views) = Len(gltf.views) + 1
          /\ Len(gltf'.buffers) = Len(gltf.buffers) + 1
          /\ gltf'.views[Len(gltf'.views)].buffer = Len(gltf.buffers)

C10_PushIndices == [](RefsInRange) /\ [][PushReturnsPriorLength]_vars

C10_Witness ==
    /\ pc = "converted"
    /\ ids.positions_view = Some(0)
    /\ ids.normals_view = Some(1)
    /\ ids.indices_view = Some(2)
    /\ ids.positions = Some(0)
    /\ ids.normals = Some(1)
    /\ ids.indices = Some(2)
    /\ ids.mesh = Some(0)
    /\ ids.node = Some(0)
    /\ ids.scene = Some(0)
    /\ gltf.default_scene = Some(0)

====
